---- MODULE Spec2Model ----
(***************************************************************************)
(* Model of the project-file editing scripts of momentum-finance.          *)
(*                                                                         *)
(* The project file (project.pbxproj) is modelled as the sequence of its   *)
(* text lines.  A line is a record naming the pieces of text the scripts   *)
(* test with substring checks and regular expressions:                     *)
(*   k    the shape of the line                                            *)
(*          "begin"/"end"  /* Begin X section */, /* End X section */      *)
(*          "def1"   ID /* name */ = {isa = X; ... };   (one-line record)  *)
(*          "open"   ID /* name */ = {                  (record header)    *)
(*          "isa"    isa = X;                                              *)
(*          "field"  fileRef = REF [/* c */];                              *)
(*          "kopen"  key = {                                               *)
(*          "lopen"  children = (   |  files = (   |  buildPhases = (      *)
(*          "elem"   REF [/* c */],                                        *)
(*          "lclose" );                                                    *)
(*          "close"  };                                                    *)
(*   id   the identifier that starts the line (0: none)                    *)
(*   name the text of the comment after id, or the key / section name      *)
(*   isa  the type tag written on the line ("" none)                       *)
(*   ref  the identifier referenced on the line (0: none)                  *)
(*   rc   TRUE when ref is followed by a comment                           *)
(*   dir  the directory part of "path = ..." on a file-reference line      *)
(* Identifiers are 24 hex characters in the file; the model numbers them.  *)
(***************************************************************************)
EXTENDS Integers, Sequences, FiniteSets, TLC

VARIABLES
    doc,      \* the lines of project.pbxproj on disk
    last,     \* what the script run last did (see Result)
    nops,     \* the number of script runs so far
    wtext,    \* per concurrent add_ref run: the text it read
    wpc,      \* per concurrent add_ref run: "idle", "loaded" or "done"
    wlast,    \* the concurrent run that finished last (0: none)
    vtext,    \* validate(): the characters of the file read so far
    vs,       \* validate(): the state of its scan (see VStart)
    htext,    \* header scripts: the lines of the file they rewrite
    hlast,    \* header scripts: what the run last did (see HResult)
    swift_files,  \* add_macos_files: the Swift files of the macOS directory
    mon       \* the workflow monitor: its loop and what it has done (MonStart)

vars == <<doc, last, nops, wtext, wpc, wlast, vtext, vs, htext, hlast,
         swift_files, mon>>
scriptVars == <<doc, last, nops>>
writerVars == <<wtext, wpc, wlast>>
validateVars == <<vtext, vs>>
headerVars == <<htext, hlast>>
macosVars == <<swift_files>>
monitorVars == <<mon>>

\* ------------------------------------------------------------------ bounds
NumIds == 7
MaxOps == 2
NumRuns == 2
MaxPolls == 3
MaxBatch == 2

Ids == 1..NumIds

\* ------------------------------------------------------------- line shapes
L(k, id, name, isa, ref, rc, dir) ==
    [k |-> k, id |-> id, name |-> name, isa |-> isa, ref |-> ref, rc |-> rc, dir |-> dir]

Begin(sec) == L("begin", 0, sec, "", 0, FALSE, "")
End(sec) == L("end", 0, sec, "", 0, FALSE, "")
FileRefDef(id, name, dir) == L("def1", id, name, "PBXFileReference", 0, FALSE, dir)
BuildFileDef(id, name, ref, rc) == L("def1", id, name, "PBXBuildFile", ref, rc, "")
Open(id, name) == L("open", id, name, "", 0, FALSE, "")
IsaLine(isa) == L("isa", 0, "", isa, 0, FALSE, "")
Field(key, ref, rc) == L("field", 0, key, "", ref, rc, "")
LOpen(key) == L("lopen", 0, key, "", 0, FALSE, "")
Elem(ref, rc) == L("elem", 0, "", "", ref, rc, "")
LClose == L("lclose", 0, "", "", 0, FALSE, "")
KOpen(key) == L("kopen", 0, key, "", 0, FALSE, "")
Close == L("close", 0, "", "", 0, FALSE, "")

\* ------------------------------------------------------- sequence helpers
Range(s) == {s[i] : i \in 1..Len(s)}

\* insert the lines ins into s so that they follow line number i (0: front)
InsertAfter(s, i, ins) == SubSeq(s, 1, i) \o ins \o SubSeq(s, i + 1, Len(s))

\* least member of a non-empty set of numbers
Least(S) == CHOOSE x \in S : \A y \in S : x <= y

\* ------------------------------------------- substring tests of the scripts
\* `x in line` for an identifier x
HasId(l, x) == x # 0 /\ (l.id = x \/ l.ref = x)

\* `f"{x} /*" in line`: the identifier directly followed by a comment
HasIdComment(l, x) ==
    x # 0 /\ ((l.id = x /\ l.k \in {"def1", "open"}) \/ (l.ref = x /\ l.rc))

\* "isa = PBXFileReference" in line and "path =" in line
IsFileRefLine(l) == l.k = "def1" /\ l.isa = "PBXFileReference"

\* "isa = PBXBuildFile" in line and "fileRef =" in line
IsBuildFileLine(l) == l.k = "def1" /\ l.isa = "PBXBuildFile" /\ l.ref # 0

\* --------------------------------------------------- the files on disk
\* the names of the Swift files of the model; none holds "Test" or
\* "MomentumFinanceCore"
SwiftNames == {"Budget.swift", "FinancialMLModels.swift", "MissingTypes.swift"}

\* identifiers of the records of the project file the scripts are run on
ProjectIds == <<"FileRef", "BuildFile", "SourcesPhase", "SharedGroup", "Target">>
IdOf(what) == CHOOSE i \in DOMAIN ProjectIds : ProjectIds[i] = what
FileRefId == IdOf("FileRef")
BuildFileId == IdOf("BuildFile")
SourcesPhaseId == IdOf("SourcesPhase")
SharedGroupId == IdOf("SharedGroup")
TargetId == IdOf("Target")

\* One record of the PBXBuildFile section, written on one line or on several.
BuildFileLines(multi) ==
    IF multi
    THEN <<Open(BuildFileId, "Budget.swift in Sources"), IsaLine("PBXBuildFile"),
           Field("fileRef", FileRefId, TRUE), Close>>
    ELSE <<BuildFileDef(BuildFileId, "Budget.swift", FileRefId, TRUE)>>

\* A project file with one file reference and one build file for it, the
\* application target and, when grp, the group Shared holding the file and,
\* when phase, the Sources phase holding the build file.  multi: the build
\* file is written on several lines; ec: the phase names the build file with
\* a comment; bfEnd: the PBXBuildFile section has its End marker.  Every such
\* file has no duplicate id and no dangling reference.
Project(multi, ec, bfEnd, grp, phase) ==
    <<Begin("PBXBuildFile")>> \o BuildFileLines(multi)
    \o (IF bfEnd THEN <<End("PBXBuildFile")>> ELSE <<>>)
    \o <<Begin("PBXFileReference"),
          FileRefDef(FileRefId, "Budget.swift", "Shared"),
          End("PBXFileReference")>>
    \o (IF grp THEN <<Open(SharedGroupId, "Shared"), IsaLine("PBXGroup"),
                       LOpen("children"), Elem(FileRefId, TRUE), LClose, Close>>
         ELSE <<>>)
    \o <<Open(TargetId, "MomentumFinance"), IsaLine("PBXNativeTarget"),
          LOpen("buildPhases")>>
    \o (IF phase THEN <<Elem(SourcesPhaseId, TRUE)>> ELSE <<>>)
    \o <<LClose, Close>>
    \o (IF phase THEN <<Open(SourcesPhaseId, "Sources"), IsaLine("PBXSourcesBuildPhase"),
                         LOpen("files"), Elem(BuildFileId, ec), LClose, Close>>
         ELSE <<>>)

InitDocs ==
    {Project(m, ec, e, TRUE, TRUE) : m \in BOOLEAN, ec \in BOOLEAN, e \in BOOLEAN}
    \cup {Project(FALSE, TRUE, TRUE, g, p) : g \in BOOLEAN, p \in BOOLEAN}

\* ------------------------------------------------------ result of a script
\* op: the script run last; outcome: "ok" the file was written, "noop" the
\* script found nothing to do, "error" it printed an error and returned;
\* prev: the file before the run; ids: the identifiers the run generated or
\* chose to delete.
Result(op, outcome, prev, ids) ==
    [op |-> op, outcome |-> outcome, prev |-> prev, ids |-> ids]

\* the concurrent runs of add_ref
NumWriters == 2
Writers == 1..NumWriters

\* validate() before its first character: the line number, the in_string
\* flag, the previous character of the line, whether the rest of the line is
\* cut off by "//", the stack of (expected closer, line), and the report
VStart ==
    [line_num |-> 1, in_string |-> FALSE, prev |-> "", cut |-> FALSE,
     stack |-> <<>>, result |-> "scanning", errline |-> 0]

InitScripts ==
    /\ doc \in InitDocs
    /\ last = Result("none", "none", <<>>, {})
    /\ nops = 0

InitWriters ==
    /\ wtext = [w \in Writers |-> <<>>]
    /\ wpc = [w \in Writers |-> "idle"]
    /\ wlast = 0

InitValidate ==
    /\ vtext = <<>>
    /\ vs = VStart

\* the header scripts have not run; their file is the empty one
InitHeader ==
    /\ htext = <<>>
    /\ hlast = [op |-> "none", outcome |-> "none", prev |-> <<>>]

\* the ids of the workflow runs the GitHub API reports
RunIds == 1..NumRuns

\* main() before its first poll: the position in the loop, the set seen, the
\* runs of the current poll still to be looked at, the number of calls of
\* notify_mcp per run id, the run ids whose call failed, the run ids passed
\* over as seen, the polls so far, the polls that raised and the exception
\* in flight
MonStart ==
    [pc |-> "fetch", seen |-> {}, runs |-> <<>>, calls |-> [r \in RunIds |-> 0],
     failed |-> {}, skipped |-> {}, polls |-> 0, errors |-> 0, exc |-> "none"]

\* add_macos_files and the workflow monitor have not run
InitIdle ==
    /\ swift_files = {}
    /\ mon = MonStart

Init == InitScripts /\ InitWriters /\ InitValidate /\ InitHeader /\ InitIdle

\* ------------------------------------------- cleanup_momentum_project_v2.py
files_to_remove == {"Budget.swift", "Transaction.swift"}

\* lines 69-81: ids of one-line file references under Shared/ with a listed name
V2FileIds(lines) ==
    {l.id : l \in {x \in Range(lines) :
        IsFileRefLine(x) /\ x.dir = "Shared" /\ x.name \in files_to_remove /\ x.id # 0}}

\* lines 85-93: ids of one-line build files naming one of those ids
V2BuildIds(lines, fids) ==
    {l.id : l \in {x \in Range(lines) :
        IsBuildFileLine(x) /\ x.id # 0 /\ \E fid \in fids : HasId(x, fid)}}

\* lines 106-118: drop every line that contains a bad id
V2Filter(lines, bad) ==
    SelectSeq(lines, LAMBDA l : ~ \E b \in bad : HasId(l, b))

cleanup_v2 ==
    /\ nops < MaxOps
    /\ UNCHANGED <<writerVars, validateVars, headerVars, macosVars, monitorVars>>
    /\ LET fids == V2FileIds(doc)
           bad == fids \cup V2BuildIds(doc, fids)
       IN IF bad = {}
          THEN /\ doc' = doc
               /\ last' = Result("cleanup_v2", "noop", doc, {})
          ELSE /\ doc' = V2Filter(doc, bad)
               /\ last' = Result("cleanup_v2", "ok", doc, bad)
    /\ nops' = nops + 1

\* ------------------------------------------------- Tools/remove_ghost_files.py
\* line 17: the Sources phase the script works on
sources_phase_id == SourcesPhaseId

\* The match of  ID /* name */ = {.*?key = ((.*?));  with DOTALL, for an ID
\* among ids: the first header line with that name that is followed by a
\* "key = (" line and later a ");" line.  The result is <<f, c, i>>, the
\* numbers of the "key = (" line, of the ");" line and of the header line, or
\* NoMatch.
NoMatch == <<0, 0, 0>>

BlockMatch(lines, ids, name, key) ==
    LET starts == {i \in 1..Len(lines) :
                      /\ lines[i].k \in {"open", "def1"}
                      /\ lines[i].id \in ids /\ lines[i].name = name
                      /\ \E f \in (i+1)..Len(lines) :
                            /\ lines[f].k = "lopen" /\ lines[f].name = key
                            /\ \E c \in (f+1)..Len(lines) : lines[c].k = "lclose"}
    IN IF starts = {} THEN NoMatch
       ELSE LET i == Least(starts)
                f == Least({x \in (i+1)..Len(lines) :
                              lines[x].k = "lopen" /\ lines[x].name = key})
                c == Least({x \in (f+1)..Len(lines) : lines[x].k = "lclose"})
            IN <<f, c, i>>

\* remove_ghost_files.py 27-31, add_app_files_to_target.py 125-129 and 243-247
PhaseMatch(lines, pid) == BlockMatch(lines, {pid}, "Sources", "files")

\* every 24-hex identifier in the text between lines f and c (line 39)
BlockIds(lines, m) ==
    {x \in Ids : \E i \in (m[1]+1)..(m[2]-1) : HasId(lines[i], x)}

\* lines 45-60: the file reference named by the first one-line definition of
\* build id b, when that reference has a one-line definition with a path:
\* the number of that line (0: none)
GhostFileRefLine(lines, b) ==
    LET defs == {i \in 1..Len(lines) : IsBuildFileLine(lines[i]) /\ lines[i].id = b}
    IN IF defs = {} THEN 0
       ELSE LET fr == lines[Least(defs)].ref
                refs == {i \in 1..Len(lines) : IsFileRefLine(lines[i]) /\ lines[i].id = fr}
            IN IF refs = {} THEN 0 ELSE Least(refs)

\* lines 62-99: the build ids of the phase whose file is not on disk; disk
\* is the set of file names that exist
GhostBuildIds(lines, m, disk) ==
    {b \in BlockIds(lines, m) :
        /\ GhostFileRefLine(lines, b) # 0
        /\ lines[GhostFileRefLine(lines, b)].name \notin disk}

\* lines 120-134: drop the lines that hold a ghost id followed by a comment
GhostFilter(lines, ghosts) ==
    SelectSeq(lines, LAMBDA l : ~ \E g \in ghosts : HasIdComment(l, g))

\* remove_ghost_files(), lines 9-144.  The files that exist on disk are the
\* environment's choice.
remove_ghost_files ==
    /\ nops < MaxOps
    /\ UNCHANGED <<writerVars, validateVars, headerVars, macosVars, monitorVars>>
    /\ LET m == PhaseMatch(doc, sources_phase_id)
       IN IF m = NoMatch
          THEN /\ doc' = doc
               /\ last' = Result("remove_ghost_files", "error", doc, {})
          ELSE \E disk \in SUBSET SwiftNames :
                 LET ghosts == GhostBuildIds(doc, m, disk)
                 IN IF ghosts = {}
                    THEN /\ doc' = doc
                         /\ last' = Result("remove_ghost_files", "noop", doc, {})
                    ELSE /\ doc' = GhostFilter(doc, ghosts)
                         /\ last' = Result("remove_ghost_files", "ok", doc, ghosts)
    /\ nops' = nops + 1

\* -------------------------------------------------------- generate_id()
\* uuid.uuid4().hex[:24].upper(): an identifier drawn without looking at the
\* file (add_file_ref.py 9-10, add_app_files_to_target.py 10-11,
\* add_missing_types.py 14-15).  The draws of the model are one identifier
\* the file may already hold and the identifiers no initial file holds.
generate_id == {BuildFileId} \cup ((Len(ProjectIds) + 1)..NumIds)

\* ------------------------------------------------------ Tools/add_file_ref.py
file_name == "FinancialMLModels.swift"

HasFileRefSection(lines) ==
    \E i \in 1..Len(lines) : lines[i].k = "begin" /\ lines[i].name = "PBXFileReference"

\* lines 36-48: the new definition goes on the line after the first
\* "/* Begin PBXFileReference section */"
AddRefInsertDef(lines, fid) ==
    LET b == Least({i \in 1..Len(lines) :
                      lines[i].k = "begin" /\ lines[i].name = "PBXFileReference"})
    IN InsertAfter(lines, b, <<FileRefDef(fid, file_name, "Shared")>>)

\* lines 54-58: the children list of the first group commented Shared
SharedGroupMatch(lines) == BlockMatch(lines, Ids, "Shared", "children")

\* lines 66-75: the reference goes at the end of the children list (the
\* whitespace before ");" stays behind as a blank line, which no line of the
\* model stands for)
AddRefAppendChild(lines, m, fid) == InsertAfter(lines, m[2] - 1, <<Elem(fid, TRUE)>>)

\* add_ref() with the write moved before the search for the group: the file
\* is written although "Shared Group not found." is reported
AddRefWritesBeforeGroupCheck(lines, fid) ==
    IF ~ HasFileRefSection(lines)
    THEN [outcome |-> "error", out |-> lines]
    ELSE LET c1 == AddRefInsertDef(lines, fid)
             m == SharedGroupMatch(c1)
         IN IF m = NoMatch
            THEN [outcome |-> "error", out |-> c1]
            ELSE [outcome |-> "ok", out |-> AddRefAppendChild(c1, m, fid)]

\* add_ref(), lines 13-80, on the text read from the file: the outcome and
\* the text of the file afterwards (out), which is the text read when
\* nothing is written
AddRef(lines, fid) ==
    IF ~ HasFileRefSection(lines)
    THEN [outcome |-> "error", out |-> lines]
    ELSE LET c1 == AddRefInsertDef(lines, fid)
             m == SharedGroupMatch(c1)
         IN IF m = NoMatch
            THEN [outcome |-> "error", out |-> lines]
            ELSE [outcome |-> "ok", out |-> AddRefAppendChild(c1, m, fid)]

add_ref ==
    /\ nops < MaxOps
    /\ UNCHANGED <<writerVars, validateVars, headerVars, macosVars, monitorVars>>
    /\ \E fid \in generate_id :
         LET r == AddRef(doc, fid)
         IN /\ doc' = r.out
            /\ last' = Result("add_ref", r.outcome, doc, {fid})
    /\ nops' = nops + 1

\* --------------------------------------------- Tools/add_app_files_to_target.py
target_name == "MomentumFinance"

\* re.findall of the identifiers of lines a+1 .. b-1, in text order
RECURSIVE IdSeq(_, _, _)
IdSeq(lines, a, b) ==
    IF a + 1 >= b THEN <<>>
    ELSE LET l == lines[a + 1]
         IN (IF l.id # 0 THEN <<l.id>> ELSE <<>>)
            \o (IF l.ref # 0 THEN <<l.ref>> ELSE <<>>)
            \o IdSeq(lines, a + 1, b)

\* lines 22-31: the header line commented with the target's name whose next
\* line is "isa = PBXNativeTarget;" (0: none)
TargetLine(lines) ==
    LET hits == {i \in 1..(Len(lines) - 1) :
                    /\ lines[i].k \in {"open", "def1"} /\ lines[i].name = target_name
                    /\ lines[i + 1].isa = "PBXNativeTarget"}
    IN IF hits = {} THEN 0 ELSE Least(hits)

\* lines 58-61: the first id of the buildPhases list that some line defines
\* with the comment Sources (0: none)
FindSourcesPhase(lines, phase_ids) ==
    LET hits == {n \in 1..Len(phase_ids) :
                    \E x \in Range(lines) :
                        x.k \in {"open", "def1"} /\ x.id = phase_ids[n] /\ x.name = "Sources"}
    IN IF hits = {} THEN 0 ELSE phase_ids[Least(hits)]

\* lines 75-78: the line numbers of the one-line file references
FileRefLines(lines) == {i \in 1..Len(lines) : IsFileRefLine(lines[i]) /\ lines[i].id # 0}

\* lines 124-161: some build file of the phase's files list is defined on one
\* line as the build file of this file reference (exact text, or the id
\* followed on its line by "fileRef = <id>")
IsAlreadyAdded(lines, spid, fr) ==
    LET m == PhaseMatch(lines, spid)
        existing_build_files == IF m = NoMatch THEN {} ELSE BlockIds(lines, m)
    IN \E bfid \in existing_build_files : \E x \in Range(lines) :
          \/ IsBuildFileLine(x) /\ x.id = bfid /\ x.name = fr.name /\ x.ref = fr.id
          \/ IsBuildFileLine(x) /\ x.id = bfid /\ x.ref = fr.id

\* lines 82-197: the file references to add, as line numbers: Swift files not
\* already added whose file is found on disk (disk: the names that exist)
FilesToAdd(lines, spid, disk) ==
    {i \in FileRefLines(lines) :
        /\ lines[i].name \in SwiftNames
        /\ ~ IsAlreadyAdded(lines, spid, lines[i])
        /\ lines[i].name \in disk}

\* the members of a set of numbers in ascending order
RECURSIVE Ascending(_)
Ascending(S) == IF S = {} THEN <<>> ELSE <<Least(S)>> \o Ascending(S \ {Least(S)})

\* lines 221-238: the place of the new definitions, the first line after
\* "/* Begin PBXBuildFile section */" that is not such a line (0: none)
BuildFileInsertLine(lines) ==
    LET isBegin(i) == lines[i].k = "begin" /\ lines[i].name = "PBXBuildFile"
        begins == {i \in 1..Len(lines) : isBegin(i)}
    IN IF begins = {} THEN 0
       ELSE LET after == {j \in (Least(begins) + 1)..Len(lines) : ~ isBegin(j)}
            IN IF after = {} THEN 0 ELSE Least(after)

\* lines 19-67: the id of the Sources phase of the target (0: an error was
\* printed)
AppSourcesPhase(lines) ==
    LET t == TargetLine(lines)
    IN IF t = 0 THEN 0
       ELSE LET tm == BlockMatch(lines, {lines[t].id}, target_name, "buildPhases")
            IN IF tm = NoMatch THEN 0
               ELSE FindSourcesPhase(lines, IdSeq(lines, tm[1], tm[2]))

\* the files_to_add list, as line numbers in text order
AppFilesToAdd(lines, spid, disk) ==
    IF spid = 0 THEN <<>> ELSE Ascending(FilesToAdd(lines, spid, disk))

\* lines 211-271: the text written for files_to_add; newid[n] is the n-th
\* result of generate_id()
AppWrite(lines, spid, files_to_add, newid) ==
    LET at == BuildFileInsertLine(lines)
        added == IF at = 0 THEN 0 ELSE Len(files_to_add)
        defs == [j \in 1..added |->
                   BuildFileDef(newid[j], lines[files_to_add[j]].name,
                                lines[files_to_add[j]].id, TRUE)]
        final == IF at = 0 THEN lines ELSE InsertAfter(lines, at - 1, defs)
        pm == PhaseMatch(final, spid)
    IN IF pm = NoMatch
       THEN [outcome |-> "error", out |-> lines, ids |-> {}]
       ELSE [outcome |-> "ok",
             out |-> InsertAfter(final, pm[2] - 1, [j \in 1..added |-> Elem(newid[j], TRUE)]),
             ids |-> {newid[j] : j \in 1..added}]

\* add_app_files(), lines 14-277: the outcome and the text of the file
\* afterwards, for the Sources phase spid and the list files_to_add found
AddAppFiles(lines, spid, files_to_add, newid) ==
    IF spid = 0
    THEN [outcome |-> "error", out |-> lines, ids |-> {}]
    ELSE IF files_to_add = <<>>
         THEN [outcome |-> "noop", out |-> lines, ids |-> {}]
         ELSE AppWrite(lines, spid, files_to_add, newid)

add_app_files ==
    /\ nops < MaxOps
    /\ UNCHANGED <<writerVars, validateVars, headerVars, macosVars, monitorVars>>
    /\ LET spid == AppSourcesPhase(doc)
       IN \E disk \in SUBSET SwiftNames :
            LET files_to_add == AppFilesToAdd(doc, spid, disk)
            IN \E newid \in [1..Len(files_to_add) -> generate_id] :
                 LET r == AddAppFiles(doc, spid, files_to_add, newid)
                 IN /\ doc' = r.out
                    /\ last' = Result("add_app_files", r.outcome, doc, r.ids)
    /\ nops' = nops + 1

\* ------------------------------------------------------- add_missing_types.py
group_name == "MomentumFinance"
missing_types_file == "MissingTypes.swift"

\* a line that holds a closing brace
HasCloseBrace(l) == l.k \in {"close", "def1"}

\* re.sub inserting the entry after each of the lines numbered in points
RECURSIVE InsertAfterEach(_, _, _)
InsertAfterEach(lines, points, entry) ==
    IF points = {} THEN lines
    ELSE LET p == CHOOSE x \in points : \A y \in points : y <= x
         IN InsertAfterEach(InsertAfter(lines, p, <<entry>>), points \ {p}, entry)

\* lines 20-34: the line numbers before each "/* End <sec> section */"
BeforeEnd(lines, sec) ==
    {i - 1 : i \in {j \in 1..Len(lines) : lines[j].k = "end" /\ lines[j].name = sec}}

\* the match of  <start>[^}]*key = \(\s*  from start line g: the last
\* "key = (" line reached from g without passing a closing brace (0: none)
ListAfter(lines, g, key) ==
    LET cands == {f \in (g + 1)..Len(lines) :
                    /\ lines[f].k = "lopen" /\ lines[f].name = key
                    /\ \A x \in (g + 1)..(f - 1) : ~ HasCloseBrace(lines[x])}
    IN IF cands = {} THEN 0 ELSE CHOOSE f \in cands : \A y \in cands : y <= f

\* lines 37-39: the children lists that follow "MomentumFinance = {"
GroupPoints(lines) ==
    {ListAfter(lines, g, "children") :
        g \in {i \in 1..Len(lines) : lines[i].k = "kopen" /\ lines[i].name = group_name}} \ {0}

\* lines 42-44: the files lists that follow "isa = PBXSourcesBuildPhase;"
SourcesPoints(lines) ==
    {ListAfter(lines, g, "files") :
        g \in {i \in 1..Len(lines) : lines[i].k = "isa" /\ lines[i].isa = "PBXSourcesBuildPhase"}} \ {0}

\* add_file_to_project(), lines 8-47: the text written to the file
AddFileToProject(lines, file_ref_uuid, build_file_uuid) ==
    LET c1 == InsertAfterEach(lines, BeforeEnd(lines, "PBXFileReference"),
                              FileRefDef(file_ref_uuid, missing_types_file, ""))
        c2 == InsertAfterEach(c1, BeforeEnd(c1, "PBXBuildFile"),
                              BuildFileDef(build_file_uuid, missing_types_file,
                                           file_ref_uuid, TRUE))
        c3 == InsertAfterEach(c2, GroupPoints(c2), Elem(file_ref_uuid, TRUE))
    IN InsertAfterEach(c3, SourcesPoints(c3), Elem(build_file_uuid, TRUE))

add_file_to_project ==
    /\ nops < MaxOps
    /\ UNCHANGED <<writerVars, validateVars, headerVars, macosVars, monitorVars>>
    /\ \E fr \in generate_id, bf \in generate_id :
         /\ doc' = AddFileToProject(doc, fr, bf)
         /\ last' = Result("add_file_to_project", "ok", doc, {fr, bf})
    /\ nops' = nops + 1

Next ==
    \/ cleanup_v2
    \/ remove_ghost_files
    \/ add_ref
    \/ add_app_files
    \/ add_file_to_project

Spec == Init /\ [][Next]_vars

\* ------------------------------------- add_file_ref.py run by several users
\* lines 15-16: the run reads the whole file
WLoad(w) ==
    /\ wpc[w] = "idle"
    /\ wtext' = [wtext EXCEPT ![w] = doc]
    /\ wpc' = [wpc EXCEPT ![w] = "loaded"]
    /\ UNCHANGED <<doc, last, nops, wlast, validateVars, headerVars, macosVars, monitorVars>>

\* lines 18-80: the run edits the text it read and, unless it printed an
\* error, writes the result over the file, whatever the file holds by then
WSave(w) ==
    /\ wpc[w] = "loaded"
    /\ \E fid \in generate_id :
         LET r == AddRef(wtext[w], fid)
         IN /\ doc' = IF r.outcome = "ok" THEN r.out ELSE doc
            /\ last' = Result("add_ref", r.outcome, doc, {fid})
    /\ wpc' = [wpc EXCEPT ![w] = "done"]
    /\ wlast' = w
    /\ UNCHANGED <<nops, wtext, validateVars, headerVars, macosVars, monitorVars>>

NextWriters == \E w \in Writers : WLoad(w) \/ WSave(w)

SpecWriters == Init /\ [][NextWriters]_vars

\* ------------------------------------------- Tools/validate_pbxproj_structure.py
\* the characters of the model's files: the brackets, the double quote, the
\* slash, the backslash and the line feed
MaxChars == 5
NL == "nl"
VChars == {"{", "}", "(", ")", "q", "/", "bs", NL}
Quote == "q"
Backslash == "bs"

Closer(c) == IF c = "{" THEN "}" ELSE ")"

\* lines 28-48: one character c of clean_line; st is the state before it
VChar(st, c) ==
    LET in_string == IF c = Quote /\ st.prev # Backslash
                     THEN ~ st.in_string ELSE st.in_string
        t == [st EXCEPT !.in_string = in_string, !.prev = c]
    IN IF in_string THEN t
       ELSE IF c \in {"{", "("}
            THEN [t EXCEPT !.stack = Append(st.stack, <<Closer(c), st.line_num>>)]
       ELSE IF c \in {"}", ")"}
            THEN IF st.stack = <<>>
                 THEN [t EXCEPT !.result = "unexpected", !.errline = st.line_num]
                 ELSE LET top == st.stack[Len(st.stack)]
                          popped == [t EXCEPT !.stack = SubSeq(st.stack, 1, Len(st.stack) - 1)]
                      IN IF c # top[1]
                         THEN [popped EXCEPT !.result = "mismatch", !.errline = st.line_num]
                         ELSE popped
       ELSE t

\* VStep with the in_string flag kept from one line to the next
VStepKeepsString(st, c) ==
    IF c = NL
    THEN [st EXCEPT !.line_num = st.line_num + 1, !.prev = "", !.cut = FALSE]
    ELSE IF st.cut THEN st
    ELSE IF c = "/" /\ st.prev = "/" THEN [st EXCEPT !.cut = TRUE]
    ELSE VChar(st, c)

\* lines 12-24: the next character of the file.  Within a line everything
\* from the first "//" on is cut off (line 17: its first slash has been
\* scanned as an ordinary character, which changes nothing but prev); a line
\* feed ends the line, and the next line starts outside any string.
VStep(st, c) ==
    IF c = NL
    THEN [st EXCEPT !.line_num = st.line_num + 1, !.in_string = FALSE,
                    !.prev = "", !.cut = FALSE]
    ELSE IF st.cut THEN st
    ELSE IF c = "/" /\ st.prev = "/" THEN [st EXCEPT !.cut = TRUE]
    ELSE VChar(st, c)

\* lines 51-55: the end of the file
VFinish(st) ==
    IF st.stack # <<>>
    THEN [st EXCEPT !.result = "unclosed", !.errline = st.stack[Len(st.stack)][2]]
    ELSE [st EXCEPT !.result = "valid"]

VRead ==
    /\ vs.result = "scanning"
    /\ Len(vtext) < MaxChars
    /\ \E c \in VChars :
         /\ vtext' = Append(vtext, c)
         /\ vs' = VStep(vs, c)
    /\ UNCHANGED <<scriptVars, writerVars, headerVars, macosVars, monitorVars>>

VEof ==
    /\ vs.result = "scanning"
    /\ vs' = VFinish(vs)
    /\ UNCHANGED <<vtext, scriptVars, writerVars, headerVars, macosVars, monitorVars>>

NextValidate == VRead \/ VEof

\* validate() reads one file; the script actions are not part of this run
InitOneFile ==
    /\ doc = Project(FALSE, TRUE, TRUE, TRUE, TRUE)
    /\ last = Result("none", "none", <<>>, {})
    /\ nops = 0
    /\ InitWriters /\ InitValidate /\ InitHeader /\ InitIdle

SpecValidate == InitOneFile /\ [][NextValidate]_vars

\* ---------------------- Tools/test_fix_header.py, Tools/fix_missing_commas.py
\* These scripts read the file as lines of text.  A line is a record:
\*   idc   TRUE when the line starts with "<24 hex> /* ... */" (id_regex)
\*   rest  the stripped text after that match, or the stripped line
MaxHLines == 3

magic_header == "// !$*UTF8*$!"

HLine(idc, rest) == [idc |-> idc, rest |-> rest]
MagicLine == HLine(FALSE, magic_header)
BlankLine == HLine(FALSE, "")

\* what follows "<id> /* c */": nothing, a comma, a record header, a record
IdRests == {"", ",", "= {", "= {isa = PBXBuildFile; };"}
\* lines without an id: the header, an altered header, a blank, a field
PlainRests == {magic_header, "// !$*UTF8*$! x", "", "isa = PBXGroup;"}

HLines == {HLine(TRUE, r) : r \in IdRests} \cup {HLine(FALSE, r) : r \in PlainRests}

\* rest.strip().endswith(",") / .endswith(";") / "=" in rest
EndsWithComma(rest) == rest = ","
EndsWithSemicolon(rest) == rest \in {"= {isa = PBXBuildFile; };", "isa = PBXGroup;"}
HasEquals(rest) == rest \in {"= {", "= {isa = PBXBuildFile; };", "isa = PBXGroup;"}

\* line.startswith("//")
StartsWithSlashes(l) == ~l.idc /\ l.rest \in {magic_header, "// !$*UTF8*$! x"}

\* lines 25-62: the body of the loop for line number i (from 1)
FixLine(i, l) ==
    LET commaed ==
            IF /\ l.idc
               /\ ~EndsWithComma(l.rest) /\ ~EndsWithSemicolon(l.rest)
               /\ ~HasEquals(l.rest)
            THEN HLine(TRUE, ",")
            ELSE l
    IN  IF i = 1 /\ StartsWithSlashes(commaed) /\ commaed.rest # magic_header
        THEN MagicLine
        ELSE commaed

HResult(op, outcome, prev) == [op |-> op, outcome |-> outcome, prev |-> prev]

\* wipe_header(): lines[0] = "\n" raises IndexError on an empty file, which
\* the except clause prints; otherwise the file is written back
wipe_header ==
    /\ UNCHANGED <<scriptVars, writerVars, validateVars, macosVars, monitorVars>>
    /\ IF htext = <<>>
       THEN /\ htext' = htext
            /\ hlast' = HResult("wipe_header", "error", htext)
       ELSE /\ htext' = [htext EXCEPT ![1] = BlankLine]
            /\ hlast' = HResult("wipe_header", "ok", htext)

\* fix_commas(): every line goes through the loop and the file is written
fix_commas ==
    /\ UNCHANGED <<scriptVars, writerVars, validateVars, macosVars, monitorVars>>
    /\ htext' = [i \in DOMAIN htext |-> FixLine(i, htext[i])]
    /\ hlast' = HResult("fix_commas", "ok", htext)

NextHeader == wipe_header \/ fix_commas

\* the file the header scripts are run on is any text of up to MaxHLines lines
InitHeaderFiles ==
    /\ doc = Project(FALSE, TRUE, TRUE, TRUE, TRUE)
    /\ last = Result("none", "none", <<>>, {})
    /\ nops = 0
    /\ InitWriters /\ InitValidate /\ InitIdle
    /\ htext \in UNION {[1..n -> HLines] : n \in 0..MaxHLines}
    /\ hlast = HResult("none", "none", <<>>)

SpecHeader == InitHeaderFiles /\ [][NextHeader]_vars

\* ------------------------------------------- cleanup_momentum_project_v3.py
\* lines 43-54: ids of one-line file references whose comment is a listed
\* name (Budget.swift and Transaction.swift are in the list of lines 6-32)
V3FileIds(lines) ==
    {l.id : l \in {x \in Range(lines) :
        IsFileRefLine(x) /\ x.name \in files_to_remove /\ x.id # 0}}

\* lines 56-68: ids of one-line build files naming one of those ids; each is
\* printed as "Adding BuildID <bid> for FileID <fid>"
V3BuildIds(lines, fids) ==
    {l.id : l \in {x \in Range(lines) :
        IsBuildFileLine(x) /\ x.id # 0 /\ \E fid \in fids : HasId(x, fid)}}

\* lines 70-101: exit when no id was found, else drop every line that
\* contains a bad id and write the file
cleanup_v3 ==
    /\ nops < MaxOps
    /\ UNCHANGED <<writerVars, validateVars, headerVars, macosVars, monitorVars>>
    /\ LET fids == V3FileIds(doc)
           all_bad_ids == fids \cup V3BuildIds(doc, fids)
       IN IF all_bad_ids = {}
          THEN /\ doc' = doc
               /\ last' = Result("cleanup_v3", "noop", doc, {})
          ELSE /\ doc' = SelectSeq(doc, LAMBDA l : ~ \E b \in all_bad_ids : HasId(l, b))
               /\ last' = Result("cleanup_v3", "ok", doc, all_bad_ids)
    /\ nops' = nops + 1

\* --------------------------------------------------------- Tools/nuke_ids.py
\* lines 4-19: the ghost build file, the ghost file reference, ...
target_ids == {BuildFileId, FileRefId}

\* nuke(): drop every line that contains a target id and write the file
nuke ==
    /\ nops < MaxOps
    /\ UNCHANGED <<writerVars, validateVars, headerVars, macosVars, monitorVars>>
    /\ doc' = SelectSeq(doc, LAMBDA l : ~ \E tid \in target_ids : HasId(l, tid))
    /\ last' = Result("nuke", "ok", doc, target_ids)
    /\ nops' = nops + 1

\* ------------------------------------------------ Tools/cleanup_duplicates.py
\* line 5: the record defined more than once; lines 38, 41: the ids that
\* mark its bad and its good definition
target_id == SharedGroupId
bad_marker == BuildFileId
good_marker == FileRefId

\* lines 18-19: the matches of  target_id /*.*?*/ = {  - the header lines of
\* target_id.  (A reference "target_id /* c */," would start a match too; the
\* files of the model hold no reference to target_id.)
DefinitionMatches(lines) ==
    {i \in 1..Len(lines) : lines[i].id = target_id /\ lines[i].k \in {"def1", "open"}}

\* lines 35-36: the block runs from the match to the first "};" after it
\* (the last line of the file when there is none: find() returns -1)
BlockEnd(lines, start) ==
    LET ends == {j \in start..Len(lines) : lines[j].k \in {"def1", "close"}}
    IN  IF ends = {} THEN Len(lines) ELSE Least(ends)

\* lines 38-40: the matches whose block holds the bad marker
BadMatches(lines) ==
    {m \in DefinitionMatches(lines) :
        \E j \in m..BlockEnd(lines, m) : HasId(lines[j], bad_marker)}

\* cleanup(): with fewer than two definitions, or with no bad block, only a
\* message is printed; else the bad block found last is cut and the file
\* written
cleanup ==
    /\ nops < MaxOps
    /\ UNCHANGED <<writerVars, validateVars, headerVars, macosVars, monitorVars>>
    /\ IF Cardinality(DefinitionMatches(doc)) < 2 \/ BadMatches(doc) = {}
       THEN /\ doc' = doc
            /\ last' = Result("cleanup", "noop", doc, {})
       ELSE LET start == CHOOSE m \in BadMatches(doc) :
                             \A n \in BadMatches(doc) : n <= m
            IN  /\ doc' = SubSeq(doc, 1, start - 1)
                          \o SubSeq(doc, BlockEnd(doc, start) + 1, Len(doc))
                /\ last' = Result("cleanup", "ok", doc, {target_id})
    /\ nops' = nops + 1

\* ------------------------------------------------------ Tools/repair_braces.py
\* line 5: the two build configurations the script repairs; in the files of
\* the model they take the two highest ids
DebugConfigId == NumIds - 1
ReleaseConfigId == NumIds
repair_target_ids == <<DebugConfigId, ReleaseConfigId>>

\* lines 39-40: the first line that holds "<tid> /*" (0: none)
RepairStart(lines, tid) ==
    LET at == {i \in 1..Len(lines) : HasIdComment(lines[i], tid)}
    IN  IF at = {} THEN 0 ELSE Least(at)

\* lines 61-65: what the braces of a line add to brace_count; on the line the
\* scan starts in, only the text from "<tid> /*" on is counted
BraceDelta(l, tid, first) ==
    IF l.k \in {"open", "kopen"} THEN 1
    ELSE IF l.k = "close" THEN 0 - 1
    ELSE IF l.k = "def1" /\ first /\ l.id # tid THEN 0 - 1
    ELSE 0

RECURSIVE BraceCount(_, _, _, _)
BraceCount(lines, tid, s, n) ==
    IF n < s THEN 0
    ELSE BraceCount(lines, tid, s, n - 1) + BraceDelta(lines[n], tid, n = s)

\* lines 94-97: the text after a newline starts with "/* End" or "<id> /*"
LooksLikeNextBlock(l) ==
    \/ l.k = "end"
    \/ l.k \in {"def1", "open"}
    \/ l.k = "elem" /\ l.rc

\* lines 37-110 for one tid: at the first newline from the start on that is
\* followed by such text, brace_count times "};" are inserted when it is
\* positive
RepairOne(lines, tid) ==
    LET s == RepairStart(lines, tid)
        hits == IF s = 0 THEN {}
                ELSE {n \in s..(Len(lines) - 1) : LooksLikeNextBlock(lines[n + 1])}
    IN  IF hits = {} THEN lines
        ELSE LET n == Least(hits)
                 brace_count == BraceCount(lines, tid, s, n)
             IN  IF brace_count > 0
                 THEN InsertAfter(lines, n, [j \in 1..brace_count |-> Close])
                 ELSE lines

\* repair(): both ids in turn, then the file is written
repair ==
    /\ nops < MaxOps
    /\ UNCHANGED <<writerVars, validateVars, headerVars, macosVars, monitorVars>>
    /\ doc' = RepairOne(RepairOne(doc, repair_target_ids[1]), repair_target_ids[2])
    /\ last' = Result("repair", "ok", doc, {})
    /\ nops' = nops + 1

\* a build configuration as clone_configs wrote it: closed times "};" after
\* the opening of buildSettings (2: the whole record)
MaxBraces == 2

ConfigLines(id, name, closed) ==
    <<Open(id, name), IsaLine("XCBuildConfiguration"), KOpen("buildSettings")>>
    \o [j \in 1..closed |-> Close]

\* project files with the two build configurations, whole or cut short
ConfigDocs ==
    {Project(FALSE, TRUE, TRUE, TRUE, TRUE)
        \o <<Begin("XCBuildConfiguration")>>
        \o ConfigLines(DebugConfigId, "Debug", a)
        \o ConfigLines(ReleaseConfigId, "Release", b)
        \o <<End("XCBuildConfiguration")>> : a \in 0..MaxBraces, b \in 0..MaxBraces}

\* one more definition of the group Shared: the good one lists the file, the
\* bad one a build file, the unknown one nothing
GroupBlock(kind) ==
    <<Open(target_id, "Shared"), IsaLine("PBXGroup"), LOpen("children")>>
    \o (IF kind = "good" THEN <<Elem(good_marker, TRUE)>>
        ELSE IF kind = "bad" THEN <<Elem(bad_marker, TRUE)>> ELSE <<>>)
    \o <<LClose, Close>>

BlockKinds == {"good", "bad", "unknown"}

\* project files in which the group Shared is defined two or three times
DuplicateDocs ==
    {Project(FALSE, TRUE, TRUE, TRUE, TRUE) \o GroupBlock(a) : a \in BlockKinds}
    \cup {Project(FALSE, TRUE, TRUE, TRUE, TRUE) \o GroupBlock(a) \o GroupBlock(b) :
            a \in BlockKinds, b \in BlockKinds}

NextCleanup == cleanup_v3 \/ nuke \/ cleanup \/ repair

\* the clean-up scripts are run on the project files of Init, on files that
\* define a record more than once and on files with build configurations
InitCleanup ==
    /\ doc \in InitDocs \cup DuplicateDocs \cup ConfigDocs
    /\ last = Result("none", "none", <<>>, {})
    /\ nops = 0
    /\ InitWriters /\ InitValidate /\ InitHeader /\ InitIdle

SpecCleanup == InitCleanup /\ [][NextCleanup]_vars

\* ------------------------------------------------- the graph of a file
\* ids that some line defines as a record
DefIds(lines) == {l.id : l \in {x \in Range(lines) : x.k \in {"def1", "open"}}}

\* ids that some line references
RefIds(lines) == {l.ref : l \in {x \in Range(lines) : x.ref # 0}}

Dangling(lines) == RefIds(lines) \ DefIds(lines)

NoDuplicateId(lines) ==
    \A i, j \in 1..Len(lines) :
        (i # j /\ lines[i].k \in {"def1", "open"} /\ lines[j].k \in {"def1", "open"})
            => lines[i].id # lines[j].id

WellFormed(lines) == NoDuplicateId(lines) /\ Dangling(lines) = {}

Deleters == {"cleanup_v2", "remove_ghost_files"}

\* C1: after a deletion of the ids last.ids has been written, no record with
\* one of those ids is left and no line of the file names one of them.
C1_NoIdentLeftAfterDelete ==
    (last.op \in Deleters /\ last.outcome = "ok" /\ WellFormed(last.prev))
        => \A i \in last.ids :
              i \notin DefIds(doc) /\ \A n \in 1..Len(doc) : ~ HasId(doc[n], i)

Adders == {"add_ref", "add_app_files", "add_file_to_project"}

\* C2: the file never holds two records with one id nor a reference to an
\* id that no record has, whatever scripts have run on it.
C2_AlwaysWellFormed == WellFormed(doc)

\* C3: a script run that ended with an error left the file as it was.
C3_ErrorLeavesFileUnchanged == last.outcome = "error" => doc = last.prev

C3_Witness ==
    /\ last.op = "add_ref" /\ last.outcome = "error"
    /\ HasFileRefSection(last.prev) /\ doc = last.prev

\* C4: no identifier generated by a run that wrote the file was the id of a
\* record of the file before the run.
C4_GeneratedIdIsFresh ==
    (last.op \in Adders /\ last.outcome = "ok") => last.ids \cap DefIds(last.prev) = {}

\* the build files of file reference f, written on one line or on several
BuildFilesOf(lines, f) ==
    {lines[i].id : i \in {n \in 1..Len(lines) :
        \/ IsBuildFileLine(lines[n]) /\ lines[n].ref = f
        \/ /\ lines[n].k = "open"
           /\ \E j \in (n + 1)..Len(lines) :
                /\ lines[j].k = "field" /\ lines[j].name = "fileRef" /\ lines[j].ref = f
                /\ \A x \in (n + 1)..(j - 1) : lines[x].k # "close"}}

\* the files list of the Sources phase, in order
PhaseFiles(lines) ==
    LET m == PhaseMatch(lines, SourcesPhaseId)
    IN IF m = NoMatch THEN <<>> ELSE IdSeq(lines, m[1], m[2])

\* the phase already lists a build file of file reference f
EdgeExists(lines, f) == \E b \in BuildFilesOf(lines, f) : b \in Range(PhaseFiles(lines))

\* C6: adding files to the Sources phase when the phase already lists a build
\* file of every file reference leaves the files list as it was.
C6_DuplicateEdgeLeavesListUnchanged ==
    (/\ last.op = "add_app_files"
     /\ \A i \in FileRefLines(last.prev) : EdgeExists(last.prev, last.prev[i].id))
        => PhaseFiles(doc) = PhaseFiles(last.prev)

\* C7: every reference a run adds to the file names a record of the file.
C7_AddedEdgeHasTarget ==
    (last.op \in Adders /\ WellFormed(last.prev))
        => (RefIds(doc) \ RefIds(last.prev)) \subseteq DefIds(doc)

InitDocsWellFormed == nops = 0 => WellFormed(doc)

\* C5: a run whose file changed on disk after the run read it writes nothing.
C5_StaleSaveWritesNothing ==
    (wlast # 0 /\ wtext[wlast] # last.prev) => doc = last.prev

\* ---------------------------------------------- balanced nesting of a text
\* The nesting a tokenizer with quoted strings sees: a string runs from a
\* quote to the next quote that no backslash escapes, brackets inside a
\* string do not count, and outside a string "//" starts a comment that runs
\* to the end of the line.  bad is "" until the first closer that closes
\* nothing or the wrong bracket, found on line badline.
NestStart == [in_str |-> FALSE, esc |-> FALSE, slash |-> FALSE, comment |-> FALSE,
              stack |-> <<>>, line |-> 1, bad |-> "", badline |-> 0]

NestStep(st, c) ==
    IF st.bad # "" THEN st
    ELSE IF c = NL
         THEN [st EXCEPT !.line = st.line + 1, !.esc = FALSE, !.slash = FALSE,
                         !.comment = FALSE]
    ELSE IF st.comment THEN st
    ELSE IF st.in_str
         THEN IF st.esc THEN [st EXCEPT !.esc = FALSE]
              ELSE IF c = Backslash THEN [st EXCEPT !.esc = TRUE]
              ELSE IF c = Quote THEN [st EXCEPT !.in_str = FALSE]
              ELSE st
    ELSE IF c = "/" THEN [st EXCEPT !.slash = TRUE, !.comment = st.slash]
    ELSE LET t == [st EXCEPT !.slash = FALSE]
         IN IF c = Quote THEN [t EXCEPT !.in_str = TRUE]
            ELSE IF c \in {"{", "("} THEN [t EXCEPT !.stack = Append(st.stack, Closer(c))]
            ELSE IF c \in {"}", ")"}
                 THEN IF st.stack = <<>> \/ st.stack[Len(st.stack)] # c
                      THEN [t EXCEPT !.bad = "closer", !.badline = st.line]
                      ELSE [t EXCEPT !.stack = SubSeq(st.stack, 1, Len(st.stack) - 1)]
            ELSE t

RECURSIVE Nest(_, _)
Nest(text, n) == IF n = 0 THEN NestStart ELSE NestStep(Nest(text, n - 1), text[n])

\* the text has every string closed and a closer that closes nothing or the
\* wrong bracket, or a bracket left open at its end
Unbalanced(text) ==
    LET st == Nest(text, Len(text))
    IN ~ st.in_str /\ (st.bad # "" \/ st.stack # <<>>)

VErrors == {"unexpected", "mismatch", "unclosed"}

\* C10: for a text whose brackets are unbalanced or mismatched the scan ends
\* with an error, and for a wrong closer the error names the closer's line.
C10_UnbalancedIsRejected ==
    (vs.result # "scanning" /\ Unbalanced(vtext))
        => /\ vs.result \in VErrors
           /\ Nest(vtext, Len(vtext)).bad # ""
                => vs.errline = Nest(vtext, Len(vtext)).badline

\* C11: a file whose first line is not exactly the magic header (blanked,
\* altered, or a line of the body) is refused when fix_commas loads it: the
\* run ends in an error and nothing is written.
C11_BadHeaderIsFatal ==
    (hlast.op = "fix_commas" /\ hlast.prev # <<>> /\ hlast.prev[1] # MagicLine)
        => (hlast.outcome = "error" /\ htext = hlast.prev)

\* the record a line belongs to: the id of the last record header before it
Owner(lines, n) ==
    LET heads == {m \in 1..n : lines[m].k = "open"}
    IN  IF heads = {} THEN 0
        ELSE lines[CHOOSE m \in heads : \A h \in heads : h <= m].id

\* the list a line belongs to: the key of the last "key = (" before it
ListKey(lines, n) ==
    LET opens == {m \in 1..n : lines[m].k = "lopen"}
    IN  IF opens = {} THEN ""
        ELSE lines[CHOOSE m \in opens : \A h \in opens : h <= m].name

\* the (record, field) pairs of a file that hold a reference to id i
Holders(lines, i) ==
    {IF lines[n].k = "def1" THEN <<lines[n].id, "fileRef">>
     ELSE IF lines[n].k = "field" THEN <<Owner(lines, n), lines[n].name>>
     ELSE <<Owner(lines, n), ListKey(lines, n)>> :
        n \in {m \in 1..Len(lines) : lines[m].ref = i}}

\* C15: the edits a deletion reports are exactly the (record, field) pairs
\* that held the deleted id before it, and no dangling reference is left.
\* cleanup_v3 reports one (build file, fileRef) pair per "Adding BuildID".
C15_ReportedEditsAreExact ==
    (last.op = "cleanup_v3" /\ last.outcome = "ok" /\ WellFormed(last.prev))
        => /\ \A f \in V3FileIds(last.prev) :
                {<<b, "fileRef">> : b \in V3BuildIds(last.prev, {f})}
                    = Holders(last.prev, f)
           /\ Dangling(doc) = {}

\* C18: a file that defines an id twice is refused (the run fails, nothing is
\* written); any other file is taken with exactly one record per id.
C18_DuplicateIdIsRejected ==
    last.op = "cleanup"
        => IF NoDuplicateId(last.prev)
           THEN NoDuplicateId(doc)
           ELSE last.outcome = "error" /\ doc = last.prev

\* the brackets of a file: the closers still expected after its lines, or
\* <<"!">> once a closer came that was not expected
RECURSIVE Expect(_, _)
Expect(lines, n) ==
    IF n = 0 THEN <<>>
    ELSE LET st == Expect(lines, n - 1)
             k == lines[n].k
         IN  IF st = <<"!">> THEN st
             ELSE IF k \in {"open", "kopen"} THEN <<"}">> \o st
             ELSE IF k = "lopen" THEN <<")">> \o st
             ELSE IF k \in {"close", "lclose"}
                  THEN IF st # <<>> /\ st[1] = (IF k = "close" THEN "}" ELSE ")")
                       THEN Tail(st) ELSE <<"!">>
             ELSE st

Parses(lines) == Expect(lines, Len(lines)) = <<>>

\* C19: the file is written only with a project that parses and has no
\* duplicate id and no dangling reference.
C19_WrittenFileIsValid ==
    (last.op = "nuke" /\ last.outcome = "ok")
        => (Parses(doc) /\ WellFormed(doc))

\* ------------------------------------------------- Tools/add_macos_files.py
APP_SOURCES_PHASE_ID == SourcesPhaseId

\* `filename in content`: the name stands in a comment of a definition, alone
\* or followed by " in Sources"
NameInContent(lines, filename) ==
    \E i \in 1..Len(lines) :
        /\ lines[i].k \in {"def1", "open"}
        /\ lines[i].name \in {filename, filename \o " in Sources"}

\* lines 36-42 without the test: every Swift file of the directory is added
MacosFilesToAddAll(lines, files) == files

\* lines 36-42: the Swift files whose name the project text does not hold
MacosFilesToAdd(lines, files) == {f \in files : ~ NameInContent(lines, f)}

\* os.listdir gives the names in an order of its own: the orders of a set
Orders(S) == {o \in [1..Cardinality(S) -> S] : Range(o) = S}

\* content.find("/* End <sec> section */"): the first such line (0: none)
FirstEnd(lines, sec) ==
    LET e == {i \in 1..Len(lines) : lines[i].k = "end" /\ lines[i].name = sec}
    IN IF e = {} THEN 0 ELSE Least(e)

\* lines 100-101: the first "<id> /* Sources */ = { isa = PBXSourcesBuildPhase;"
\* from which a "files = (" is reached without passing a closing brace, as
\* the line number of that "files = (" (0: no match)
AppSourcesMatch(lines) ==
    LET heads == {h \in 1..(Len(lines) - 1) :
                    /\ lines[h] = Open(APP_SOURCES_PHASE_ID, "Sources")
                    /\ lines[h + 1] = IsaLine("PBXSourcesBuildPhase")
                    /\ ListAfter(lines, h + 1, "files") # 0}
    IN IF heads = {} THEN 0 ELSE ListAfter(lines, Least(heads) + 1, "files")

\* lines 72-74, 88-90, 107-109: the entries of the files in order; ids holds
\* the file reference id and then the build file id of each file
MacosFileRefEntries(order, ids) ==
    [k \in 1..Len(order) |-> FileRefDef(ids[2 * k - 1], order[k], "macOS")]
MacosBuildFileEntries(order, ids) ==
    [k \in 1..Len(order) |-> BuildFileDef(ids[2 * k], order[k], ids[2 * k - 1], TRUE)]
MacosSourcesEntries(order, ids) ==
    [k \in 1..Len(order) |-> Elem(ids[2 * k], TRUE)]

\* lines 44-116 for the files to add in order: the outcome and the text of
\* the project file afterwards (out), which is the text read when nothing is
\* written
MacosAdd(lines, order, ids) ==
    IF order = <<>> THEN [outcome |-> "noop", out |-> lines]
    ELSE LET e1 == FirstEnd(lines, "PBXFileReference")
             c1 == InsertAfter(lines, e1 - 1, MacosFileRefEntries(order, ids))
             e2 == FirstEnd(c1, "PBXBuildFile")
             c2 == InsertAfter(c1, e2 - 1, MacosBuildFileEntries(order, ids))
             m == AppSourcesMatch(c2)
         IN IF e1 = 0 \/ e2 = 0 \/ m = 0
            THEN [outcome |-> "error", out |-> lines]
            ELSE [outcome |-> "ok",
                  out |-> InsertAfter(c2, m, MacosSourcesEntries(order, ids))]

\* add_macos_files(), lines 22-116
add_macos_files ==
    /\ nops < MaxOps
    /\ UNCHANGED <<writerVars, validateVars, headerVars, macosVars, monitorVars>>
    /\ \E order \in Orders(MacosFilesToAdd(doc, swift_files)) :
         \E ids \in [1..(2 * Len(order)) -> generate_id] :
            LET r == MacosAdd(doc, order, ids)
            IN /\ doc' = r.out
               /\ last' = Result("add_macos_files", r.outcome, doc, Range(ids))
    /\ nops' = nops + 1

\* a project file that has lost the End marker of a section
WithoutEnd(lines, sec) == SelectSeq(lines, LAMBDA l : l # End(sec))

\* the project files add_macos_files is run on
MacosDocs == InitDocs \cup {WithoutEnd(d, "PBXFileReference") : d \in InitDocs}

NextMacos == add_macos_files

InitMacos ==
    /\ doc \in MacosDocs
    /\ last = Result("none", "none", <<>>, {})
    /\ nops = 0
    /\ InitWriters /\ InitValidate /\ InitHeader
    /\ swift_files \in SUBSET SwiftNames
    /\ mon = MonStart

SpecMacos == InitMacos /\ [][NextMacos]_vars

\* ------------------------------------- Automation/github_workflow_monitor.py
\* what fetch_recent_workflow_runs raises: requests.get fails, the status is
\* an error (raise_for_status), the body is not JSON, or the JSON is not the
\* expected object
FetchErrors == {"RequestException", "HTTPError", "ValueError", "AttributeError"}

\* line 59, `except Exception`: the handler of the loop catches every class
\* but those that derive from BaseException alone
Caught(e) == e \notin {"KeyboardInterrupt", "SystemExit", "GeneratorExit"}

\* the lists a poll returns: the runs of the page that did not succeed
Batches == UNION {[1..n -> RunIds] : n \in 0..MaxBatch}

\* where the loop goes on with the runs that are left
AfterRuns(runs) == IF runs = <<>> THEN "sleep" ELSE "loop"

\* the run is marked seen only when its notification went through
SeenAfterSuccess(seen, rid, ok) == IF ok THEN seen \cup {rid} ELSE seen

\* line 56, seen.add(rid), before notify_mcp is called at line 58
SeenAfter(seen, rid, ok) == seen \cup {rid}

\* line 52: runs = fetch_recent_workflow_runs(), which returns or raises
fetch_recent_workflow_runs ==
    /\ mon.pc = "fetch" /\ mon.polls < MaxPolls
    /\ \/ \E b \in Batches :
            mon' = [mon EXCEPT !.runs = b, !.pc = AfterRuns(b), !.polls = @ + 1]
       \/ \E e \in FetchErrors :
            mon' = [mon EXCEPT !.exc = e, !.pc = "raised", !.polls = @ + 1]
    /\ UNCHANGED <<scriptVars, writerVars, validateVars, headerVars, macosVars>>

\* lines 53-58, the body of the for loop for the next run; notify_mcp
\* (lines 32-44) posts the alert and prints instead of raising when the
\* post fails
for_run ==
    /\ mon.pc = "loop"
    /\ LET rid == Head(mon.runs)
           rest == Tail(mon.runs)
       IN IF rid \in mon.seen
          THEN mon' = [mon EXCEPT !.runs = rest, !.pc = AfterRuns(rest),
                                  !.skipped = @ \cup {rid}]
          ELSE \E ok \in BOOLEAN :
                 mon' = [mon EXCEPT !.runs = rest, !.pc = AfterRuns(rest),
                                    !.seen = SeenAfter(@, rid, ok),
                                    !.calls[rid] = @ + 1,
                                    !.failed = IF ok THEN @ ELSE @ \cup {rid}]
    /\ UNCHANGED <<scriptVars, writerVars, validateVars, headerVars, macosVars>>

\* lines 59-60: the exception reaches the handler of the loop, or leaves main
monitor_error ==
    /\ mon.pc = "raised"
    /\ mon' = [mon EXCEPT !.pc = IF Caught(mon.exc) THEN "sleep" ELSE "stopped",
                          !.exc = "none", !.errors = @ + 1]
    /\ UNCHANGED <<scriptVars, writerVars, validateVars, headerVars, macosVars>>

\* line 61: time.sleep(poll_interval), then the next round of `while True`
sleep ==
    /\ mon.pc = "sleep"
    /\ mon' = [mon EXCEPT !.pc = "fetch"]
    /\ UNCHANGED <<scriptVars, writerVars, validateVars, headerVars, macosVars>>

NextMonitor == fetch_recent_workflow_runs \/ for_run \/ monitor_error \/ sleep

\* the monitor runs on its own; the scripts are not part of this run
InitMonitor ==
    /\ doc = Project(FALSE, TRUE, TRUE, TRUE, TRUE)
    /\ last = Result("none", "none", <<>>, {})
    /\ nops = 0
    /\ InitWriters /\ InitValidate /\ InitHeader /\ InitIdle

SpecMonitor == InitMonitor /\ [][NextMonitor]_vars

\* C21: after the repair of a file that parses and holds a duplicate id or a
\* dangling reference has completed, the written file holds neither.
C21_FixedFileHasNoViolation ==
    (last.op = "cleanup" /\ last.outcome = "ok" /\ Parses(last.prev))
        => (NoDuplicateId(doc) /\ Dangling(doc) = {})

\* the section a line lies in: the name of the last Begin marker before it
\* that no End marker has closed ("" outside every section)
SectionOf(lines, n) ==
    LET marks == {m \in 1..(n - 1) : lines[m].k \in {"begin", "end"}}
    IN  IF marks = {} THEN ""
        ELSE LET m == CHOOSE x \in marks : \A y \in marks : y <= x
             IN  IF lines[m].k = "begin" THEN lines[m].name ELSE ""

\* the record headers of a file that lie in some section
InSection(lines) ==
    {n \in 1..Len(lines) : lines[n].k \in {"def1", "open"} /\ SectionOf(lines, n) # ""}

\* C22: in the text written for a project every record lies in the section
\* named by its isa, and the ids within a section are strictly ascending,
\* whatever the order in which the records were added (here: after a script
\* has added records under ids the file did not hold).
C22_SectionsAreCanonical ==
    (last.op \in Adders /\ last.outcome = "ok" /\ last.ids \cap DefIds(last.prev) = {})
        => /\ \A n \in InSection(doc) :
                doc[n].k = "def1" => doc[n].isa = SectionOf(doc, n)
           /\ \A m, n \in InSection(doc) :
                (m < n /\ SectionOf(doc, m) = SectionOf(doc, n))
                    => doc[m].id < doc[n].id

\* C23: the text written for a project that parsed has balanced and properly
\* nested braces and parentheses, whatever scripts were run on it.
C23_WrittenTextIsBalanced ==
    (last.outcome = "ok" /\ Parses(last.prev)) => Parses(doc)

\* the line of a file that comes right before the End marker of a section
\* (0: the file has no such marker)
LineBeforeEnd(lines, sec) ==
    LET ends == {j \in 2..Len(lines) : lines[j].k = "end" /\ lines[j].name = sec}
    IN  IF ends = {} THEN 0 ELSE Least(ends) - 1

\* the lines of a from number i on occur in b from number j on, in order
RECURSIVE KeepsLines(_, _, _, _)
KeepsLines(a, i, b, j) ==
    IF i > Len(a) THEN TRUE
    ELSE IF j > Len(b) THEN FALSE
    ELSE IF a[i] = b[j] THEN KeepsLines(a, i + 1, b, j + 1)
    ELSE KeepsLines(a, i, b, j + 1)

\* C24: add_file_to_project writes the file; the text written keeps every
\* line of the original and holds, right before the End marker of its
\* section, a new PBXFileReference for the file name and a new PBXBuildFile
\* whose fileRef is the id of that file reference.
C24_BothDefinitionsAreWritten ==
    last.op = "add_file_to_project"
        => /\ last.outcome = "ok"
           /\ KeepsLines(last.prev, 1, doc, 1)
           /\ \E fr \in last.ids, bf \in last.ids :
                LET f == LineBeforeEnd(doc, "PBXFileReference")
                    b == LineBeforeEnd(doc, "PBXBuildFile")
                IN  /\ f # 0 /\ doc[f] = FileRefDef(fr, missing_types_file, "")
                    /\ b # 0 /\ doc[b] = BuildFileDef(bf, missing_types_file, fr, TRUE)

\* C26: every id that add_file_to_project writes into a children or files
\* list is defined in the written text by the entry the run created.
C26_InsertedReferencesAreDefined ==
    last.op = "add_file_to_project"
        => \A n \in 1..Len(doc) :
             (doc[n].k = "elem" /\ doc[n].ref \in last.ids /\ doc[n] \notin Range(last.prev))
                => \E m \in 1..Len(doc) :
                     /\ doc[m].k = "def1" /\ doc[m].id = doc[n].ref
                     /\ doc[m].name = missing_types_file
                     /\ doc[m] \notin Range(last.prev)

\* ---- the scan C27 describes, stated over the whole text by position ----
\* the first position of the line that position i lies in, and its number
RefLineStart(text, i) ==
    LET feeds == {j \in 1..(i - 1) : text[j] = NL}
    IN  IF feeds = {} THEN 1 ELSE 1 + (CHOOSE j \in feeds : \A k \in feeds : k <= j)

RefLineNo(text, i) == 1 + Cardinality({j \in 1..(i - 1) : text[j] = NL})

\* position i lies at or after the first "//" of its line
RefCut(text, i) ==
    \E j \in RefLineStart(text, i)..i :
        j < Len(text) /\ text[j] = "/" /\ text[j + 1] = "/"

\* position i holds a double quote that opens or closes a string
RefToggles(text, i) ==
    /\ text[i] = Quote /\ ~ RefCut(text, i)
    /\ (i = RefLineStart(text, i) \/ text[i - 1] # Backslash)

\* position i lies inside a double-quoted string of its line
RefInString(text, i) ==
    Cardinality({j \in RefLineStart(text, i)..i : RefToggles(text, j)}) % 2 = 1

\* the positions whose bracket counts
RefBrackets(text) ==
    {i \in 1..Len(text) :
        text[i] \in {"{", "}", "(", ")"} /\ ~ RefCut(text, i) /\ ~ RefInString(text, i)}

\* the openers still open after the first n positions (innermost last) and
\* the first position, if any, of a closer that closes nothing or the wrong
\* opener
RECURSIVE RefScan(_, _)
RefScan(text, n) ==
    IF n = 0 THEN [open |-> <<>>, bad |-> 0]
    ELSE LET r == RefScan(text, n - 1)
         IN  IF r.bad # 0 \/ n \notin RefBrackets(text) THEN r
             ELSE IF text[n] \in {"{", "("} THEN [r EXCEPT !.open = Append(r.open, n)]
             ELSE IF r.open # <<>> /\ Closer(text[r.open[Len(r.open)]]) = text[n]
                  THEN [r EXCEPT !.open = SubSeq(r.open, 1, Len(r.open) - 1)]
             ELSE [r EXCEPT !.bad = n]

\* C27: validate() reports the structure as valid exactly when, with the
\* text after the first "//" of each line removed and the characters inside
\* the strings of each line skipped, every opener is closed by its closer in
\* LIFO order and none is open at the end; else it stops at the first closer
\* that does not fit and reports its line, or reports at the end the line of
\* the opener left open.
C27_ValidateReportsTheScan ==
    LET r == RefScan(vtext, Len(vtext))
    IN  /\ vs.result = "scanning" => r.bad = 0
        /\ vs.result = "valid" <=> (vs.result # "scanning" /\ r.bad = 0 /\ r.open = <<>>)
        /\ vs.result = "unclosed"
             => /\ r.bad = 0 /\ r.open # <<>>
                /\ vs.errline = RefLineNo(vtext, r.open[Len(r.open)])
        /\ vs.result \in {"unexpected", "mismatch"}
             => /\ r.bad = Len(vtext)
                /\ vs.errline = RefLineNo(vtext, r.bad)

\* validate() has reported a text as valid that holds counted brackets and
\* an opening brace that a comment or a string hides
C27_Witness ==
    /\ vs.result = "valid"
    /\ RefBrackets(vtext) # {}
    /\ \E i \in 1..Len(vtext) : vtext[i] = "{" /\ i \notin RefBrackets(vtext)

\* the definitions of file f that add_macos_files wrote: file references
\* with the path macOS/f, and build files named f for such a reference
MacosRefLines(lines, f) ==
    {i \in 1..Len(lines) : IsFileRefLine(lines[i]) /\ lines[i].name = f
                           /\ lines[i].dir = "macOS"}
MacosBuildLines(lines, f) ==
    {i \in 1..Len(lines) :
        /\ IsBuildFileLine(lines[i]) /\ lines[i].name = f
        /\ \E j \in MacosRefLines(lines, f) : lines[j].id = lines[i].ref}

\* C28: runs of add_macos_files with the same directory contents add each
\* Swift file at most once: a run after the first leaves the project file as
\* it found it, and a run that does not find the PBXFileReference section,
\* the PBXBuildFile section or the app Sources phase writes nothing.
C28_SecondRunAddsNothing ==
    last.op = "add_macos_files" =>
        /\ \A f \in SwiftNames :
              /\ Cardinality(MacosRefLines(doc, f)) <= 1
              /\ Cardinality(MacosBuildLines(doc, f)) <= 1
        /\ nops >= 2 => (doc = last.prev /\ last.outcome # "ok")
        /\ last.outcome = "error" => doc = last.prev

\* the second run has skipped a file that the first run added
C28_Witness ==
    /\ last.op = "add_macos_files" /\ nops = 2 /\ last.outcome = "noop"
    /\ \E f \in swift_files : MacosRefLines(doc, f) # {}

\* C29: over the whole run of the monitor, notify_mcp is called at most once
\* for each workflow run id, whatever later polls return and whether or not
\* the call went through, and no exception raised while fetching the runs
\* ends the loop.
C29_NotifiedAtMostOnce ==
    /\ \A rid \in RunIds : mon.calls[rid] <= 1
    /\ mon.pc # "stopped"

\* a run whose notification failed came back in a later poll and was passed
\* over, and the loop has gone on polling after a fetch that raised
C29_Witness ==
    /\ \E rid \in mon.failed \cap mon.skipped : mon.calls[rid] = 1
    /\ mon.errors > 0 /\ mon.pc = "fetch" /\ mon.polls = MaxPolls

====
